---- MODULE Spec2Model ----
(***************************************************************************)
(* A model of python_api_project.py: main() runs fetch_github_data,        *)
(* process_data, analyze_data, the summary prints and                      *)
(* create_visualizations one after the other; an exception raised by any   *)
(* of them is not caught and ends the process.                             *)
(*                                                                         *)
(* Conventions.  A Python name that is not bound yet is <<>>, a bound one  *)
(* is <<v>>.  A JSON string is a TLA+ string, except the two values the    *)
(* program inspects or may receive as null: the creation timestamp is the  *)
(* tuple of its characters, and a description is <<>> for null and <<s>>   *)
(* for the string s.  A dict is a function from its keys.  A DataFrame is  *)
(* its set of column labels and the sequence of its rows; the label of the *)
(* row at position i is i - 1 (a RangeIndex).  A float is the exact        *)
(* fraction [num, den] in lowest terms, NaN being 0/0.                     *)
(***************************************************************************)
EXTENDS Integers, Sequences, FiniteSets, TLC

VARIABLES pc, requests, response, raw_data, df, summary, stdout, charts, error, calls

vars == <<pc, requests, response, raw_data, df, summary, stdout, charts, error, calls>>

----------------------------------------------------------------------------
(* Bounds of the model *)

\* longest "items" array of the responses that vary the records' fields
MaxRecords == 2
\* longest "items" array of the responses that vary one count column
MaxItems == 6
\* largest star or fork count of those responses
MaxCount == 2

(* Constants of the program *)

HTTP_OK == 200
TopN == 5
ChartTopN == 10

----------------------------------------------------------------------------
(* Outcomes of a call: a returned value or a raised exception *)

Return(v) == [ok |-> TRUE, value |-> v, type |-> "", key |-> "", status |-> 0]
Raise(t, k, s) == [ok |-> FALSE, value |-> <<>>, type |-> t, key |-> k, status |-> s]

Min(a, b) == IF a <= b THEN a ELSE b

None == <<>>
Some(v) == <<v>>

----------------------------------------------------------------------------
(* datetime.strptime(s, '%Y-%m-%dT%H:%M:%SZ') *)

Digits == {"0", "1", "2", "3", "4", "5", "6", "7", "8", "9"}

DigitVal(c) ==
    CASE c = "0" -> 0 [] c = "1" -> 1 [] c = "2" -> 2 [] c = "3" -> 3
      [] c = "4" -> 4 [] c = "5" -> 5 [] c = "6" -> 6 [] c = "7" -> 7
      [] c = "8" -> 8 [] c = "9" -> 9

\* the number of digits of s from position p on, up to the first non-digit
RECURSIVE DigitRun(_, _)
DigitRun(s, p) ==
    IF p <= Len(s) /\ s[p] \in Digits THEN 1 + DigitRun(s, p + 1) ELSE 0

\* the value of the n digits of s that start at position p
RECURSIVE Number(_, _, _)
Number(s, p, n) ==
    IF n = 0 THEN 0 ELSE 10 * Number(s, p, n - 1) + DigitVal(s[p + n - 1])

IsLeap(y) == (y % 4 = 0 /\ y % 100 # 0) \/ y % 400 = 0

DaysInMonth(y, m) ==
    IF m = 2 THEN (IF IsLeap(y) THEN 29 ELSE 28)
    ELSE IF m \in {4, 6, 9, 11} THEN 30 ELSE 31

\* the format '%Y-%m-%dT%H:%M:%SZ': directives and literal characters
Format == <<"%Y", "-", "%m", "-", "%d", "T", "%H", ":", "%M", ":", "%S", "Z">>

\* the pattern is compiled with IGNORECASE
Upper(c) == IF c = "t" THEN "T" ELSE IF c = "z" THEN "Z" ELSE c

\* a one- or two-digit field at p whose value lies in lo..hi; its width, 0 if none
Field(s, p, lo, hi) ==
    LET n == DigitRun(s, p)
    IN  IF n \in {1, 2} /\ Number(s, p, n) \in lo..hi THEN n ELSE 0

\* %d also takes a blank followed by one of 1..9
DayField(s, p) ==
    IF p <= Len(s) /\ s[p] = " "
    THEN (IF DigitRun(s, p + 1) = 1 /\ Number(s, p + 1, 1) # 0 THEN 2 ELSE 0)
    ELSE Field(s, p, 1, 31)

\* how many characters of s at p the format element f matches, 0 if it does not
Width(s, p, f) ==
    CASE f = "%Y" -> IF DigitRun(s, p) = 4 THEN 4 ELSE 0
      [] f = "%m" -> Field(s, p, 1, 12)
      [] f = "%d" -> DayField(s, p)
      [] f = "%H" -> Field(s, p, 0, 23)
      [] f = "%M" -> Field(s, p, 0, 59)
      [] f = "%S" -> Field(s, p, 0, 61)
      [] OTHER -> IF p <= Len(s) /\ Upper(s[p]) = f THEN 1 ELSE 0

\* the number the w characters at p stand for
FieldValue(s, p, w) ==
    IF s[p] \in Digits THEN Number(s, p, w) ELSE Number(s, p + 1, w - 1)

\* match Format[k..] against s[p..]; found holds the fields read so far
RECURSIVE Match(_, _, _, _)
RECURSIVE MatchElement(_, _, _, _, _)
Match(s, p, k, found) ==
    IF k > Len(Format)
    THEN (IF p = Len(s) + 1 THEN Return(found) ELSE Raise("ValueError", "created_at", 0))
    ELSE MatchElement(s, p, k, found, Width(s, p, Format[k]))

\* Format[k] matched w characters at p
MatchElement(s, p, k, found, w) ==
    IF w = 0 THEN Raise("ValueError", "created_at", 0)
    ELSE Match(s, p + w, k + 1,
               IF Format[k] \in DOMAIN found
               THEN [found EXCEPT ![Format[k]] = FieldValue(s, p, w)]
               ELSE found)

\* datetime(...) of the matched fields; the constructor checks their ranges
datetime(r) ==
    IF ~r.ok THEN r
    ELSE IF \/ r.value["%Y"] < 1
            \/ r.value["%d"] > DaysInMonth(r.value["%Y"], r.value["%m"])
            \/ r.value["%S"] > 59
         THEN Raise("ValueError", "created_at", 0)
    ELSE Return([year |-> r.value["%Y"], month |-> r.value["%m"],
                 day |-> r.value["%d"]])

strptime(s) ==
    datetime(Match(s, 1, 1, [f \in {"%Y", "%m", "%d", "%H", "%M", "%S"} |-> 0]))

----------------------------------------------------------------------------
(* process_data *)

Columns == {"name", "stars", "forks", "issues", "created_at", "description", "owner"}

\* pd.DataFrame(rows): a list of no dicts makes a frame without columns
DataFrame(rows) ==
    [columns |-> IF rows = <<>> THEN {} ELSE Columns, rows |-> rows]

\* a variant of RepoRowFrom that insists on a description
RepoRowFrom_DescriptionRequired(repo, created) ==
    IF ~created.ok THEN created
    ELSE IF "description" \notin DOMAIN repo THEN Raise("KeyError", "description", 0)
    ELSE IF repo.description = None THEN Raise("TypeError", "description", 0)
    ELSE IF "owner" \notin DOMAIN repo THEN Raise("KeyError", "owner", 0)
    ELSE IF "login" \notin DOMAIN repo.owner THEN Raise("KeyError", "login", 0)
    ELSE Return([name |-> repo.name,
                 stars |-> repo.stargazers_count,
                 forks |-> repo.forks_count,
                 issues |-> repo.open_issues_count,
                 created_at |-> created.value.year,
                 description |-> repo.description,
                 owner |-> repo.owner.login])

\* the entries of the dict from 'created_at' on; created is what strptime gave
RepoRowFrom(repo, created) ==
    IF ~created.ok THEN created
    ELSE IF "description" \notin DOMAIN repo THEN Raise("KeyError", "description", 0)
    ELSE IF "owner" \notin DOMAIN repo THEN Raise("KeyError", "owner", 0)
    ELSE IF "login" \notin DOMAIN repo.owner THEN Raise("KeyError", "login", 0)
    ELSE Return([name |-> repo.name,
                 stars |-> repo.stargazers_count,
                 forks |-> repo.forks_count,
                 issues |-> repo.open_issues_count,
                 created_at |-> created.value.year,
                 description |-> repo.description,
                 owner |-> repo.owner.login])

\* the dict appended for one repo; its entries are evaluated in source order
RepoRow(repo) ==
    IF "name" \notin DOMAIN repo THEN Raise("KeyError", "name", 0)
    ELSE IF "stargazers_count" \notin DOMAIN repo
         THEN Raise("KeyError", "stargazers_count", 0)
    ELSE IF "forks_count" \notin DOMAIN repo THEN Raise("KeyError", "forks_count", 0)
    ELSE IF "open_issues_count" \notin DOMAIN repo
         THEN Raise("KeyError", "open_issues_count", 0)
    ELSE IF "created_at" \notin DOMAIN repo THEN Raise("KeyError", "created_at", 0)
    ELSE RepoRowFrom(repo, strptime(repo.created_at))

\* the for loop: the rows of items[i..], appended to repositories
RECURSIVE AppendRows(_, _, _)
RECURSIVE AppendRow(_, _, _, _)
AppendRows(items, i, repositories) ==
    IF i > Len(items) THEN Return(repositories)
    ELSE AppendRow(items, i, repositories, RepoRow(items[i]))

\* a variant of AppendRow that skips a record it cannot read
AppendRow_SkipUnreadable(items, i, repositories, r) ==
    IF r.ok THEN AppendRows(items, i + 1, Append(repositories, r.value))
    ELSE AppendRows(items, i + 1, repositories)

\* a variant of AppendRow that puts the new row first
AppendRow_Prepend(items, i, repositories, r) ==
    IF r.ok THEN AppendRows(items, i + 1, <<r.value>> \o repositories) ELSE r

\* one pass of the loop body; r is the dict built for items[i], or what it raised
AppendRow(items, i, repositories, r) ==
    IF r.ok THEN AppendRows(items, i + 1, Append(repositories, r.value)) ELSE r

\* return pd.DataFrame(repositories)
ReturnFrame(r) == IF r.ok THEN Return(DataFrame(r.value)) ELSE r

process_data(data) ==
    IF "items" \notin DOMAIN data THEN Raise("KeyError", "items", 0)
    ELSE ReturnFrame(AppendRows(data.items, 1, <<>>))

----------------------------------------------------------------------------
(* Floats, as exact fractions *)

RECURSIVE GCD(_, _)
GCD(a, b) == IF b = 0 THEN a ELSE GCD(b, a % b)

Abs(x) == IF x < 0 THEN -x ELSE x

NaN == [num |-> 0, den |-> 0]

\* n / d in lowest terms, d > 0
Frac(n, d) ==
    LET g == GCD(Abs(n), d) IN [num |-> n \div g, den |-> d \div g]

IsNaN(q) == q.den = 0

----------------------------------------------------------------------------
(* analyze_data *)

\* df[column] as the sequence of its values
Column(frame, column) == [i \in 1..Len(frame.rows) |-> frame.rows[i][column]]

\* a variant of SeriesSum: Series.count()
SeriesSum_Count(values) == Len(values)

\* Series.sum()
RECURSIVE SeriesSum(_)
SeriesSum(values) ==
    IF values = <<>> THEN 0 ELSE values[1] + SeriesSum(Tail(values))

\* a variant of SeriesMean that divides with //
SeriesMean_FloorDivided(values) ==
    IF values = <<>> THEN NaN
    ELSE Frac(SeriesSum(values) \div Len(values), 1)

\* Series.mean(): NaN for no values
SeriesMean(values) ==
    IF values = <<>> THEN NaN ELSE Frac(SeriesSum(values), Len(values))

\* a variant of First that prefers the latest of equal values (keep='last')
First_KeepLast(rows, column, rest) ==
    CHOOSE p \in rest :
        \A q \in rest :
            \/ rows[q][column] < rows[p][column]
            \/ rows[q][column] = rows[p][column] /\ p >= q

\* of the positions in rest, the one that comes first in descending order of
\* the column; among equal values the earliest (keep='first')
First(rows, column, rest) ==
    CHOOSE p \in rest :
        \A q \in rest :
            \/ rows[q][column] < rows[p][column]
            \/ rows[q][column] = rows[p][column] /\ p <= q

\* the positions of the n largest values among rest, in result order
RECURSIVE Largest(_, _, _, _)
Largest(n, rows, column, rest) ==
    IF n = 0 \/ rest = {} THEN <<>>
    ELSE LET p == First(rows, column, rest)
         IN  <<p>> \o Largest(n - 1, rows, column, rest \ {p})

\* a variant of nlargest: df.head(n), the first n rows as they stand
nlargest_Head(frame, n, column) ==
    [k \in 1..Min(n, Len(frame.rows)) |-> k]

\* df.nlargest(n, column): the positions of the selected rows
nlargest(frame, n, column) ==
    Largest(n, frame.rows, column, 1..Len(frame.rows))

\* selected[['name', column, 'owner']], selected being the rows of frame at
\* the positions sel; a row keeps its label
Project(frame, sel, column) ==
    [k \in 1..Len(sel) |->
        [label |-> sel[k] - 1,
         name |-> frame.rows[sel[k]].name,
         owner |-> frame.rows[sel[k]].owner]
        @@ (column :> frame.rows[sel[k]][column])]

\* df.nlargest(n, column)[['name', column, 'owner']]
TopFrame(frame, n, column) == Project(frame, nlargest(frame, n, column), column)

\* year - mean, NaN if the mean is
YearsSince(year, mean) ==
    IF IsNaN(mean) THEN NaN ELSE Frac(year * mean.den - mean.num, mean.den)

\* now is datetime.now().year
analyze_data(frame, now) ==
    IF "stars" \notin frame.columns THEN Raise("KeyError", "stars", 0)
    ELSE Return(
           [total_repositories |-> Len(frame.rows),
            total_stars |-> SeriesSum(Column(frame, "stars")),
            average_stars |-> SeriesMean(Column(frame, "stars")),
            most_starred |-> TopFrame(frame, TopN, "stars"),
            most_forked |-> TopFrame(frame, TopN, "forks"),
            average_age |-> YearsSince(now, SeriesMean(Column(frame, "created_at")))])

----------------------------------------------------------------------------
(* The summary prints and create_visualizations *)

\* format spec ',': the decimal groups of n >= 0, most significant first
RECURSIVE Thousands(_)
Thousands(n) ==
    IF n < 1000 THEN <<n>> ELSE Thousands(n \div 1000) \o <<n % 1000>>

\* n / d rounded to an integer, a tie going to the even neighbour (n >= 0 < d)
RoundHalfEven(n, d) ==
    LET q == n \div d
        r == n % d
    IN  IF 2 * r > d \/ (2 * r = d /\ q % 2 = 1) THEN q + 1 ELSE q

\* format spec '.<places>f', scale = 10^places: sign, integer part, decimals
Fixed(q, scale) ==
    IF IsNaN(q) THEN [nan |-> TRUE, negative |-> FALSE, whole |-> 0, decimals |-> 0]
    ELSE LET m == RoundHalfEven(Abs(q.num) * scale, q.den)
         IN  [nan |-> FALSE, negative |-> q.num < 0,
              whole |-> m \div scale, decimals |-> m % scale]

\* DataFrame.to_string(): the header and one line per row, led by its label
to_string(top, column) ==
    [header |-> <<"name", column, "owner">>,
     body |-> [k \in 1..Len(top) |->
                 <<top[k].label, top[k].name, top[k][column], top[k].owner>>]]

\* what lines 81 to 91 write to standard output
SummaryLines(s) ==
    << [text |-> "=== GitHub Python Repositories Analysis ===", arg |-> <<>>],
       [text |-> "Total Repositories Analyzed: ", arg |-> <<s.total_repositories>>],
       [text |-> "Total Stars: ", arg |-> Thousands(s.total_stars)],
       [text |-> "Average Stars per Repository: ",
        arg |-> <<Thousands(Fixed(s.average_stars, 100).whole),
                  Fixed(s.average_stars, 100).decimals>>],
       [text |-> "Average Repository Age: ", arg |-> <<Fixed(s.average_age, 10)>>],
       [text |-> "Top 5 Most Starred Repositories:", arg |-> <<>>],
       [text |-> "table", arg |-> <<to_string(s.most_starred, "stars")>>],
       [text |-> "Top 5 Most Forked Repositories:", arg |-> <<>>],
       [text |-> "table", arg |-> <<to_string(s.most_forked, "forks")>>] >>

\* sns.barplot(data=top_10, x='stars', y='name'): one bar per row of top_10
barplot(frame, top_10) ==
    [k \in 1..Len(top_10) |->
        [x |-> frame.rows[top_10[k]].stars, y |-> frame.rows[top_10[k]].name]]

\* plt.scatter(df['forks'], df['stars']): one point per row
scatter(frame) ==
    [i \in 1..Len(frame.rows) |-> [x |-> frame.rows[i].forks, y |-> frame.rows[i].stars]]

\* style is whether the installed matplotlib still ships the 'seaborn' style
create_visualizations(frame, style) ==
    IF ~style THEN Raise("OSError", "seaborn", 0)
    ELSE IF "stars" \notin frame.columns THEN Raise("KeyError", "stars", 0)
    ELSE Return([bars |-> barplot(frame, nlargest(frame, ChartTopN, "stars")),
                 scatter |-> scatter(frame)])

----------------------------------------------------------------------------
(* fetch_github_data *)

\* a variant of fetch_github_data that returns the body whatever the status
fetch_github_data_AnyStatus(answer) == Return(answer.json)

\* answer is what requests.get returned: the status and the parsed body
fetch_github_data(answer) ==
    IF answer.status_code = HTTP_OK THEN Return(answer.json)
    ELSE Raise("Exception", "API request failed with status code", answer.status_code)

----------------------------------------------------------------------------
(* What the API may answer *)

TsPlain ==
    <<"2","0","1","9","-","0","3","-","0","7","T","1","0",":","2","0",":","3","0","Z">>
TsLeap ==
    <<"2","0","2","0","-","0","2","-","2","9","T","2","3",":","5","9",":","5","9","Z">>
TsShortFields ==
    <<"2","0","2","1","-","2","-","9","t","1",":","2",":","3","z">>
TsPadDay ==
    <<"2","0","2","2","-","0","7","-"," ","4","T","0","8",":","0","0",":","0","0","Z">>
TsNoLeap ==
    <<"2","0","2","1","-","0","2","-","2","9","T","0","0",":","0","0",":","0","0","Z">>
TsDateOnly ==
    <<"2","0","2","0","-","0","1","-","0","1">>
TsSpaceSep ==
    <<"2","0","2","0","-","0","1","-","0","1"," ","0","0",":","0","0",":","0","0","Z">>
TsMonth13 ==
    <<"2","0","2","0","-","1","3","-","0","1","T","0","0",":","0","0",":","0","0","Z">>
TsOffset ==
    <<"2","0","2","0","-","0","1","-","0","1","T","0","0",":","0","0",":","0","0",
      "+","0","0",":","0","0">>
TsYearZero ==
    <<"0","0","0","0","-","0","1","-","0","1","T","0","0",":","0","0",":","0","0","Z">>
TsSecond60 ==
    <<"2","0","1","8","-","1","2","-","3","1","T","2","3",":","5","9",":","6","0","Z">>

GoodTimestamps == {TsPlain, TsLeap, TsShortFields, TsPadDay}
BadTimestamps ==
    {TsNoLeap, TsDateOnly, TsSpaceSep, TsMonth13, TsOffset, TsYearZero, TsSecond60}

RepoKeys ==
    {"name", "stargazers_count", "forks_count", "open_issues_count", "created_at",
     "description", "owner"}

Repo(name, stars, forks, created, description) ==
    [name |-> name, stargazers_count |-> stars, forks_count |-> forks,
     open_issues_count |-> stars + forks, created_at |-> created,
     description |-> description, owner |-> [login |-> "o", id |-> 1]]

Without(repo, key) == [k \in DOMAIN repo \ {key} |-> repo[k]]

CompleteRepos ==
    {Repo("a", 1, 2, TsPlain, Some("d")), Repo("b", 2, 0, TsLeap, None),
     Repo("c", 0, 1, TsShortFields, Some("e")), Repo("a", 1, 2, TsPadDay, None)}

IncompleteRepos ==
    {Without(Repo("a", 1, 2, TsPlain, Some("d")), k) : k \in RepoKeys}
    \cup {[Repo("b", 2, 0, TsLeap, None) EXCEPT !.owner = [id |-> 1]]}

MistimedRepos == {Repo("a", 1, 2, ts, Some("d")) : ts \in BadTimestamps}

\* "items" arrays that vary the fields of the records
FieldItems ==
    UNION {[1..n -> CompleteRepos \cup IncompleteRepos \cup MistimedRepos] :
             n \in 0..MaxRecords}

\* the star counts of the "items" arrays that vary the counts
CountVectors == UNION {[1..n -> 0..MaxCount] : n \in 0..MaxItems}

\* an "items" array of complete records: record i has counts[i] stars and
\* MaxCount - counts[i] forks
CountItems(counts) ==
    [i \in DOMAIN counts |->
        Repo(ToString(i), counts[i], MaxCount - counts[i], TsPlain, Some("d"))]

\* three records with stars 100, 50, 200, forks 10, 5, 1, created 2020, 2021, 2019
ScenarioItems ==
    << Repo("x", 100, 10, TsLeap, Some("d")), Repo("y", 50, 5, TsShortFields, None),
       Repo("z", 200, 1, TsPlain, Some("e")) >>

\* the answer with status 200 that carries items
Found(items) ==
    [status_code |-> HTTP_OK, json |-> [total_count |-> Len(items), items |-> items]]

ErrorStatuses == {403, 404, 500}

\* the answers apart from those that vary the counts
Responses ==
    {Found(items) : items \in FieldItems \cup {ScenarioItems}}
    \cup {[status_code |-> HTTP_OK, json |-> [message |-> "m"]]}
    \cup {[status_code |-> c, json |-> [message |-> "m"]] : c \in ErrorStatuses}

\* datetime.now().year
NowYears == {2025, 2026}

----------------------------------------------------------------------------
(* main *)

Init ==
    /\ pc = "fetch"
    /\ requests = 0
    /\ response = <<>>
    /\ raw_data = <<>>
    /\ df = <<>>
    /\ summary = <<>>
    /\ stdout = <<>>
    /\ charts = <<>>
    /\ error = <<>>
    /\ calls = <<>>

\* the value a call leaves in the name it is assigned to: an uncaught
\* exception leaves the name as it was
Assigned(r, old) == IF r.ok THEN <<r.value>> ELSE old

\* a variant of Continue that catches the exception and goes on
Continue_Caught(r, next) ==
    /\ pc' = next
    /\ error' = IF r.ok THEN error ELSE <<r>>

\* an uncaught exception ends the process; a return goes on to the next line
Continue(r, next) ==
    /\ pc' = IF r.ok THEN next ELSE "failed"
    /\ error' = IF r.ok THEN error ELSE <<r>>

\* raw_data = fetch_github_data(), whose one requests.get returned answer
Fetched(answer, r) ==
    /\ requests' = requests + 1
    /\ response' = <<answer>>
    /\ raw_data' = Assigned(r, raw_data)
    /\ Continue(r, "process")

MainFetch ==
    /\ pc = "fetch"
    /\ \/ \E answer \in Responses : Fetched(answer, fetch_github_data(answer))
       \/ \E counts \in CountVectors :
             Fetched(Found(CountItems(counts)), fetch_github_data(Found(CountItems(counts))))
    /\ calls' = Append(calls, "fetch_github_data")
    /\ UNCHANGED <<df, summary, stdout, charts>>

\* df = process_data(raw_data)
Processed(r) ==
    /\ df' = Assigned(r, df)
    /\ Continue(r, "analyze")

MainProcess ==
    /\ pc = "process"
    /\ Processed(process_data(raw_data[1]))
    /\ calls' = Append(calls, "process_data")
    /\ UNCHANGED <<requests, response, raw_data, summary, stdout, charts>>

\* summary = analyze_data(df)
Analyzed(r) ==
    /\ summary' = Assigned(r, summary)
    /\ Continue(r, "print")

MainAnalyze ==
    /\ pc = "analyze"
    /\ \E now \in NowYears : Analyzed(analyze_data(df[1], now))
    /\ calls' = Append(calls, "analyze_data")
    /\ UNCHANGED <<requests, response, raw_data, df, stdout, charts>>

\* the prints of the summary
MainPrint ==
    /\ pc = "print"
    /\ stdout' = stdout \o SummaryLines(summary[1])
    /\ pc' = "visualize"
    /\ calls' = Append(calls, "print")
    /\ UNCHANGED <<requests, response, raw_data, df, summary, charts, error>>

\* create_visualizations(df); plt.show() has put the figure on the screen
Visualized(r) ==
    /\ charts' = Assigned(r, charts)
    /\ Continue(r, "done")

MainVisualize ==
    /\ pc = "visualize"
    /\ \E style \in BOOLEAN : Visualized(create_visualizations(df[1], style))
    /\ calls' = Append(calls, "create_visualizations")
    /\ UNCHANGED <<requests, response, raw_data, df, summary, stdout>>

Next == MainFetch \/ MainProcess \/ MainAnalyze \/ MainPrint \/ MainVisualize

Spec == Init /\ [][Next]_vars

----------------------------------------------------------------------------
(* Vocabulary of the properties *)

\* the function f has been called
Ran(f) == \E i \in 1..Len(calls) : calls[i] = f

\* the stages of a run, in the order main calls them
Stages ==
    <<"fetch_github_data", "process_data", "analyze_data", "print",
      "create_visualizations">>

\* the fetch returned a body that has an "items" array
HasItems == raw_data # <<>> /\ "items" \in DOMAIN raw_data[1]

\* a record that has every field the program reads
Complete(repo) == RepoKeys \subseteq DOMAIN repo /\ "login" \in DOMAIN repo.owner

\* a record that lacks a field or whose timestamp is not of the format
Malformed(repo) == ~Complete(repo) \/ repo.created_at \notin GoodTimestamps

\* the year each well-formed timestamp of the responses is in
YearOf(ts) ==
    CASE ts = TsPlain -> 2019 [] ts = TsLeap -> 2020
      [] ts = TsShortFields -> 2021 [] ts = TsPadDay -> 2022

\* nothing was made of the fetched data: no table, no summary, no output
NothingProduced ==
    /\ df = <<>> /\ summary = <<>> /\ stdout = <<>> /\ charts = <<>>
    /\ ~Ran("analyze_data") /\ ~Ran("print") /\ ~Ran("create_visualizations")

\* row i of the table is among the rows of top
Selected(top, i) == \E k \in 1..Len(top) : top[k].label = i - 1

\* where row i of the table stands in top
Place(top, i) == CHOOSE k \in 1..Len(top) : top[k].label = i - 1

\* top holds the Min(TopN, Len(rows)) rows of the table with the largest
\* values of the column, in descending order
IsTopOf(top, column, rows) ==
    /\ Len(top) = Min(TopN, Len(rows))
    /\ \A k \in 1..Len(top) :
          /\ top[k].label \in 0..(Len(rows) - 1)
          /\ top[k].name = rows[top[k].label + 1].name
          /\ top[k].owner = rows[top[k].label + 1].owner
          /\ top[k][column] = rows[top[k].label + 1][column]
    /\ \A k \in 1..Len(top), l \in 1..Len(top) : k # l => top[k].label # top[l].label
    /\ \A k \in 1..(Len(top) - 1) : top[k][column] >= top[k + 1][column]
    /\ \A k \in 1..Len(top), i \in 1..Len(rows) :
          ~Selected(top, i) => top[k][column] >= rows[i][column]

\* of two rows with equal values the earlier is selected first
TiesKeepOrder(top, column, rows) ==
    \A i \in 1..Len(rows), j \in 1..Len(rows) :
        (i < j /\ rows[i][column] = rows[j][column]) =>
            /\ Selected(top, j) => Selected(top, i)
            /\ (Selected(top, i) /\ Selected(top, j)) => Place(top, i) < Place(top, j)

\* the sum of the stars of the first n rows
RECURSIVE StarsOf(_, _)
StarsOf(rows, n) == IF n = 0 THEN 0 ELSE StarsOf(rows, n - 1) + rows[n].stars

----------------------------------------------------------------------------
(* Properties *)

\* C1: when the GET returns a status other than 200, the fetch raises the
\* request error carrying that status after exactly one request, and nothing
\* after the fetch runs: no transform, analysis, summary print or chart.
C1_NonOkStatusRaises ==
    (response # <<>> /\ response[1].status_code # HTTP_OK) =>
        /\ requests = 1
        /\ pc = "failed"
        /\ error # <<>>
        /\ error[1].type = "Exception"
        /\ error[1].status = response[1].status_code
        /\ calls = <<"fetch_github_data">>
        /\ raw_data = <<>>
        /\ NothingProduced

C1_Witness ==
    /\ response # <<>> /\ response[1].status_code = 403
    /\ pc = "failed" /\ error # <<>> /\ error[1].status = 403

\* C2: when a fetched record lacks a required field or has a timestamp that
\* is not of the format, the transform raises for the whole run: no table is
\* made, not even of the valid records, and no later stage runs.
C2_MalformedRecordAborts ==
    (HasItems /\ \E i \in 1..Len(raw_data[1].items) : Malformed(raw_data[1].items[i])) =>
        /\ NothingProduced
        /\ pc \in {"process", "failed"}
        /\ pc = "failed" =>
              /\ calls = <<"fetch_github_data", "process_data">>
              /\ error # <<>>
              /\ error[1].type \in {"KeyError", "ValueError"}
              /\ error[1].key \in RepoKeys \cup {"login"}

C2_Witness ==
    /\ HasItems /\ Len(raw_data[1].items) = 2
    /\ ~Malformed(raw_data[1].items[1]) /\ Malformed(raw_data[1].items[2])
    /\ pc = "failed" /\ Ran("process_data")

\* C3: analyze on a table of no records fails with the empty-dataset error,
\* not with another error and not by returning a summary.
C3_EmptyTableRaisesEmptyDataset ==
    (df # <<>> /\ df[1].rows = <<>> /\ Ran("analyze_data")) =>
        /\ summary = <<>>
        /\ pc = "failed"
        /\ error # <<>>
        /\ error[1].type = "EmptyDatasetError"

\* C4: for a non-empty sequence of valid records the table has one row per
\* record, in the same order, row i carrying the name, stars, forks, issues,
\* created year, description and owner login of record i.
C4_TransformPreservesRecords ==
    ( /\ HasItems
      /\ raw_data[1].items # <<>>
      /\ pc # "process"
      /\ \A j \in 1..Len(raw_data[1].items) : ~Malformed(raw_data[1].items[j]) ) =>
        /\ df # <<>>
        /\ Len(df[1].rows) = Len(raw_data[1].items)
        /\ \A i \in 1..Len(raw_data[1].items) :
              df[1].rows[i] =
                  [name |-> raw_data[1].items[i].name,
                   stars |-> raw_data[1].items[i].stargazers_count,
                   forks |-> raw_data[1].items[i].forks_count,
                   issues |-> raw_data[1].items[i].open_issues_count,
                   created_at |-> YearOf(raw_data[1].items[i].created_at),
                   description |-> raw_data[1].items[i].description,
                   owner |-> raw_data[1].items[i].owner.login]

C4_Witness ==
    /\ df # <<>> /\ Len(df[1].rows) = 2
    /\ df[1].rows[1].name = "b" /\ df[1].rows[2].name = "c"
    /\ df[1].rows[1].created_at = 2020 /\ df[1].rows[2].created_at = 2021

\* C5: for a non-empty table most_starred and most_forked each hold
\* min(5, number of rows) rows of the table, in descending order of stars
\* (forks), every selected value being at least every value not selected.
C5_TopFive ==
    (summary # <<>> /\ df[1].rows # <<>>) =>
        /\ IsTopOf(summary[1].most_starred, "stars", df[1].rows)
        /\ IsTopOf(summary[1].most_forked, "forks", df[1].rows)

C5_Witness ==
    /\ summary # <<>> /\ Len(df[1].rows) = TopN + 1
    /\ Len(summary[1].most_starred) = TopN
    /\ summary[1].most_starred[1].stars > summary[1].most_starred[TopN].stars
    /\ \E i \in 1..Len(df[1].rows) :
          /\ ~Selected(summary[1].most_starred, i)
          /\ df[1].rows[i].stars < summary[1].most_starred[TopN].stars
    /\ summary[1].most_starred[1].label > 0

\* C6: the selection breaks ties by table order: of two rows with equal
\* stars (forks) the earlier is selected in preference to the later and
\* stands before it when both are selected.
C6_TiesByTableOrder ==
    (summary # <<>> /\ df[1].rows # <<>>) =>
        /\ TiesKeepOrder(summary[1].most_starred, "stars", df[1].rows)
        /\ TiesKeepOrder(summary[1].most_forked, "forks", df[1].rows)

C6_Witness ==
    /\ summary # <<>>
    /\ \E i \in 1..Len(df[1].rows), j \in 1..Len(df[1].rows) :
          /\ i < j /\ df[1].rows[i].stars = df[1].rows[j].stars
          /\ Selected(summary[1].most_starred, i)
          /\ ~Selected(summary[1].most_starred, j)
    /\ \E i \in 1..Len(df[1].rows), j \in 1..Len(df[1].rows) :
          /\ i < j /\ df[1].rows[i].stars = df[1].rows[j].stars
          /\ Selected(summary[1].most_starred, i)
          /\ Selected(summary[1].most_starred, j)

\* C7: for a non-empty table total_repositories is the number of rows and
\* total_stars the exact sum of the stars of all rows.
C7_TotalsAreExact ==
    (summary # <<>> /\ df[1].rows # <<>>) =>
        /\ summary[1].total_repositories = Len(raw_data[1].items)
        /\ summary[1].total_repositories = Len(df[1].rows)
        /\ summary[1].total_stars = StarsOf(df[1].rows, Len(df[1].rows))

C7_Witness ==
    /\ summary # <<>> /\ raw_data[1].items = ScenarioItems
    /\ summary[1].total_repositories = 3 /\ summary[1].total_stars = 350

\* C8: for a non-empty table average_stars is total_stars divided by
\* total_repositories of the same summary.
C8_AverageIsTotalOverCount ==
    (summary # <<>> /\ df[1].rows # <<>>) =>
        /\ summary[1].average_stars.den > 0
        /\ summary[1].average_stars.num * summary[1].total_repositories
             = summary[1].total_stars * summary[1].average_stars.den

C8_Witness ==
    /\ summary # <<>> /\ raw_data[1].items = ScenarioItems
    /\ summary[1].average_stars = [num |-> 350, den |-> 3]
    /\ Fixed(summary[1].average_stars, 100).whole = 116
    /\ Fixed(summary[1].average_stars, 100).decimals = 67

\* the calls made so far are the first stages, each at most once and in order
InStageOrder ==
    /\ Len(calls) <= Len(Stages)
    /\ \A i \in 1..Len(calls) : calls[i] = Stages[i]

\* a stage has run only when every stage before it returned; what the run
\* has printed or drawn was made from the returned values of all of them
BuiltOnSuccess ==
    /\ error # <<>> <=> pc = "failed"
    /\ Ran("process_data") => raw_data # <<>>
    /\ Ran("analyze_data") => df # <<>>
    /\ Ran("print") => summary # <<>>
    /\ stdout # <<>> => (Ran("print") /\ stdout = SummaryLines(summary[1]))
    /\ Ran("create_visualizations") => stdout # <<>>
    /\ charts # <<>> => (pc = "done" /\ error = <<>> /\ calls = Stages)
    /\ (pc = "failed" /\ calls = <<"fetch_github_data">>) => raw_data = <<>>
    /\ (pc = "failed" /\ Len(calls) = 2) => df = <<>>
    /\ (pc = "failed" /\ Len(calls) = 3) => summary = <<>>
    /\ (pc = "failed" /\ Len(calls) <= 3) => (stdout = <<>> /\ charts = <<>>)

\* C9: the stages run at most once each, in the order fetch, transform,
\* analyze, print, charts; a stage starts only after the earlier ones
\* returned; a failure ends the run: nothing runs after it and nothing is
\* recovered, so no text or chart comes of a failed earlier stage.
C9_LinearPipeline ==
    /\ [](InStageOrder /\ BuiltOnSuccess)
    /\ [][pc \notin {"failed", "done"} /\ Len(calls') = Len(calls) + 1]_vars

C9_Witness ==
    /\ pc = "done" /\ calls = Stages /\ charts # <<>> /\ stdout # <<>>

\* C10: a record whose description is null, complete and well-timed
\* otherwise, is accepted: its row has no description, no error is raised
\* for it, and the run goes on to the analysis.
C10_NullDescriptionAccepted ==
    ( /\ HasItems
      /\ pc # "process"
      /\ \A i \in 1..Len(raw_data[1].items) : ~Malformed(raw_data[1].items[i])
      /\ \E j \in 1..Len(raw_data[1].items) : raw_data[1].items[j].description = None ) =>
        /\ df # <<>>
        /\ Len(df[1].rows) = Len(raw_data[1].items)
        /\ \A i \in 1..Len(raw_data[1].items) :
              raw_data[1].items[i].description = None => df[1].rows[i].description = None
        /\ pc = "analyze" \/ Ran("analyze_data")
        /\ pc = "failed" => Ran("create_visualizations")

C10_Witness ==
    /\ pc = "print" /\ summary # <<>>
    /\ Len(df[1].rows) = 2
    /\ df[1].rows[1].description = None /\ df[1].rows[2].description # None

====
